---- MODULE Spec2Model ----
(***************************************************************************)
(* Netpbm codec and transforms: the PBM reader/writer/transforms of        *)
(* src/pbm.go and the PGM reader/writer/transforms/converter of            *)
(* src/unnamed/part_000.                                                   *)
(*                                                                         *)
(* A file is a sequence of bytes (0..255).  A Go string is the same: a     *)
(* sequence of bytes, so a magic number is <<80, 49>> for "P1".  A *PGM or *)
(* *PBM pointer is <<>> (nil) or <<record>>.  A nil slice is <<>>.         *)
(* Sequences are 1-based: pixel (x, y) of the code is data[y+1][x+1].      *)
(***************************************************************************)
EXTENDS Integers, Sequences, FiniteSets, TLC

VARIABLES
    file,   \* the bytes of the image file on disk
    src,    \* how the file came to be: the parts it was built from, or who saved it
    pgm,    \* the *PGM the program holds: <<>> or <<[data, width, height, magicNumber, max]>>
    pbm,    \* the *PBM the program holds: <<>> or <<[data, width, height, magicNumber]>>
    err,    \* outcome of the last operation: "nil", an error text, or "panic"
    op,     \* the last operation
    cnt,    \* how many times in a row op has just been applied
    orig,   \* the receiver of op as it was before that run of op
    steps   \* operations performed so far

vars == <<file, src, pgm, pbm, err, op, cnt, orig, steps>>

----------------------------------------------------------------------------
(* Bounds of the model *)

\* images of the input files have at most this many pixels (width * height)
MaxPixels == 6
\* operations per run
MaxSteps == 4

----------------------------------------------------------------------------
(* Text: the bytes the code names, and the library calls it makes *)

Chr == [nl |-> 10, cr |-> 13, sp |-> 32, zero |-> 48, one |-> 49,
        minus |-> 45, plus |-> 43, P |-> 80]

P1 == <<Chr.P, 49>>
P2 == <<Chr.P, 50>>
P4 == <<Chr.P, 52>>
P5 == <<Chr.P, 53>>

Min(S) == CHOOSE k \in S : \A j \in S : k <= j

\* uint8(v): conversion of an int to an 8-bit unsigned value
U8(v) == ((v % 256) + 256) % 256

\* unicode.IsSpace on an ASCII byte, as strings.Fields uses it
IsSpace(b) == b \in {9, 10, 11, 12, 13, 32}

IsDigit(b) == b >= 48 /\ b <= 57

\* fmt's %d of a non-negative integer
RECURSIVE Digits(_)
Digits(n) ==
    IF n < 10 THEN <<Chr.zero + n>>
    ELSE Append(Digits(n \div 10), Chr.zero + (n % 10))

\* fmt's %d
Itoa(n) == IF n < 0 THEN <<Chr.minus>> \o Digits(-n) ELSE Digits(n)

RECURSIVE DigitsVal(_)
DigitsVal(s) ==
    IF s = <<>> THEN 0
    ELSE 10 * DigitsVal(SubSeq(s, 1, Len(s) - 1)) + (s[Len(s)] - Chr.zero)

\* strconv.Atoi: an optional sign and decimal digits; on a syntax error the
\* value is 0.  (Values beyond the int range are outside the model.)
Atoi(s) ==
    LET signed == s # <<>> /\ s[1] \in {Chr.plus, Chr.minus}
        body == IF signed THEN Tail(s) ELSE s
        ok == body # <<>> /\ \A i \in 1..Len(body) : IsDigit(body[i])
    IN  [ok |-> ok,
         val |-> IF ~ok THEN 0
                 ELSE IF s[1] = Chr.minus THEN 0 - DigitsVal(body)
                 ELSE DigitsVal(body)]

\* strings.Fields on ASCII text
RECURSIVE Fields(_)
Fields(s) ==
    IF s = <<>> THEN <<>>
    ELSE IF IsSpace(s[1]) THEN Fields(Tail(s))
    ELSE LET I == {k \in 1..Len(s) : IsSpace(s[k])}
             e == IF I = {} THEN Len(s) + 1 ELSE Min(I)
         IN  <<SubSeq(s, 1, e - 1)>> \o Fields(SubSeq(s, e, Len(s)))

\* bufio's dropCR
DropCR(s) ==
    IF s # <<>> /\ s[Len(s)] = Chr.cr THEN SubSeq(s, 1, Len(s) - 1) ELSE s

\* bufio.ScanLines over the whole stream: the tokens successive Scan calls yield
RECURSIVE ScanLines(_)
ScanLines(s) ==
    IF s = <<>> THEN <<>>
    ELSE LET I == {k \in 1..Len(s) : s[k] = Chr.nl}
         IN  IF I = {} THEN <<DropCR(s)>>
             ELSE <<DropCR(SubSeq(s, 1, Min(I) - 1))>>
                      \o ScanLines(SubSeq(s, Min(I) + 1, Len(s)))

\* scanner.Text() after the k-th scanner.Scan(): "" once the stream is exhausted
Text(lines, k) == IF k <= Len(lines) THEN lines[k] ELSE <<>>

RECURSIVE Concat(_)
Concat(ss) == IF ss = <<>> THEN <<>> ELSE Head(ss) \o Concat(Tail(ss))

----------------------------------------------------------------------------
(* Results of the two readers *)

Fail(e) == [img |-> <<>>, err |-> e]
Panic == [img |-> <<>>, err |-> "panic"]
Ok(i) == [img |-> <<i>>, err |-> "nil"]

----------------------------------------------------------------------------
(* src/pbm.go: the bitmap *)

\* parseP1Line: one element per byte of the line, indexed by the byte's
\* position; a line longer than width indexes past the slice (run-time panic).
\* make([]bool, width) panics on a negative width.  Lines are ASCII here.
parseP1Line(line, width) ==
    IF width < 0 \/ Len(line) > width THEN [panic |-> TRUE, row |-> <<>>]
    ELSE [panic |-> FALSE,
          row |-> [i \in 1..width |-> i <= Len(line) /\ line[i] = Chr.one]]

\* bit number pos (0 = least significant) of byte b
Bit(b, pos) == (b \div (2 ^ pos)) % 2

\* parseP4Line: nil when the line is shorter than (width+7)/8 bytes, else
\* pixel i is bit 7 - i%8 of byte i/8
parseP4Line(line, width) ==
    IF width < 0 THEN [panic |-> TRUE, row |-> <<>>]
    ELSE IF Len(line) < (width + 7) \div 8 THEN [panic |-> FALSE, row |-> <<>>]
    ELSE [panic |-> FALSE,
          row |-> [i \in 1..width |->
                     Bit(line[((i - 1) \div 8) + 1], 7 - ((i - 1) % 8)) = 1]]

ReadPBM(s) ==
    LET lines == ScanLines(s)
        magicNumber == Text(lines, 1)
        dimensions == Fields(Text(lines, 2))
        width == Atoi(dimensions[1])
        height == Atoi(dimensions[2])
        parsed == [i \in 1..height.val |->
                     IF magicNumber = P1
                     THEN parseP1Line(Text(lines, 2 + i), width.val)
                     ELSE parseP4Line(Text(lines, 2 + i), width.val)]
    IN  IF magicNumber # P1 /\ magicNumber # P4
        THEN Fail("Invalid PBM magic number")
        ELSE IF Len(dimensions) # 2 THEN Fail("Invalid dimensions")
        ELSE IF ~width.ok THEN Fail("Invalid width")
        ELSE IF ~height.ok THEN Fail("Invalid height")
        ELSE IF height.val < 0 THEN Panic      \* make([][]bool, height)
        ELSE IF \E i \in 1..height.val : parsed[i].panic THEN Panic
        ELSE Ok([data |-> [i \in 1..height.val |-> parsed[i].row],
                 width |-> width.val,
                 height |-> height.val,
                 magicNumber |-> magicNumber])

\* PBM.Save: the header, then for each row of data one "1 " or "0 " per pixel
\* (P1), or one byte 0xFF or 0x00 per pixel (any other magic number), and "\n"
PBMSave(b) ==
    LET pixel(v) == IF b.magicNumber = P1
                    THEN (IF v THEN <<Chr.one, Chr.sp>> ELSE <<Chr.zero, Chr.sp>>)
                    ELSE (IF v THEN <<255>> ELSE <<0>>)
        row(r) == Concat([x \in 1..Len(r) |-> pixel(r[x])]) \o <<Chr.nl>>
    IN  b.magicNumber \o <<Chr.nl>> \o Itoa(b.width) \o <<Chr.sp>>
            \o Itoa(b.height) \o <<Chr.nl>>
            \o Concat([y \in 1..Len(b.data) |-> row(b.data[y])])

\* the rows that an x < width loop over data[y][x] cannot index
ShortRows(b) == {y \in 1..b.height : Len(b.data[y]) < b.width}

\* PBM.Invert: rows in order, each pixel complemented; indexing a row shorter
\* than width panics, after the rows before it and the pixels it has were done
PBMInvert(b) ==
    LET inv(r) == [x \in 1..Len(r) |-> ~r[x]]
        bad == ShortRows(b)
        upto == IF bad = {} THEN b.height ELSE Min(bad)
    IN  [panic |-> bad # {},
         img |-> [b EXCEPT !.data =
                    [y \in 1..b.height |->
                       IF y <= upto THEN inv(b.data[y]) ELSE b.data[y]]]]

\* Flip with the swap written as two assignments in a row: the left half is
\* overwritten before it is copied
FlipRowOverwrite(r, width) ==
    [x \in 1..Len(r) |-> IF x <= width \div 2 THEN r[width + 1 - x] ELSE r[x]]

\* one row of Flip: x and width-x-1 swapped for x < width/2
FlipRow(r, width) ==
    [x \in 1..Len(r) |->
        IF x <= width \div 2 \/ x > width - (width \div 2)
        THEN r[width + 1 - x] ELSE r[x]]

\* PBM.Flip: a row shorter than width panics at x = 0 when width/2 >= 1
PBMFlip(b) ==
    LET bad == IF b.width \div 2 >= 1 THEN ShortRows(b) ELSE {}
        upto == IF bad = {} THEN b.height ELSE Min(bad) - 1
    IN  [panic |-> bad # {},
         img |-> [b EXCEPT !.data =
                    [y \in 1..b.height |->
                       IF y <= upto THEN FlipRow(b.data[y], b.width)
                       ELSE b.data[y]]]]

\* Flop: rows y and height-y-1 swapped for y < height/2
FlopRows(data, height) ==
    [y \in 1..Len(data) |->
        IF y <= height \div 2 \/ y > height - (height \div 2)
        THEN data[height + 1 - y] ELSE data[y]]

PBMFlop(b) == [panic |-> FALSE, img |-> [b EXCEPT !.data = FlopRows(b.data, b.height)]]

\* PBM.Set with 0 <= x < width, 0 <= y < height
PBMSet(b, x, y, value) ==
    IF x >= Len(b.data[y + 1]) THEN [panic |-> TRUE, img |-> b]
    ELSE [panic |-> FALSE, img |-> [b EXCEPT !.data[y + 1][x + 1] = value]]

PBMSetMagicNumber(b, magicNumber) == [b EXCEPT !.magicNumber = magicNumber]

----------------------------------------------------------------------------
(* src/unnamed/part_000: the graymap *)

\* ReadPGM: no error of Atoi is looked at; dimensions[0] and dimensions[1]
\* are indexed whatever the number of fields; one line is scanned per pixel
ReadPGM(s) ==
    LET lines == ScanLines(s)
        magicNumber == Text(lines, 1)
        dimensions == Fields(Text(lines, 2))
        width == Atoi(dimensions[1]).val
        height == Atoi(dimensions[2]).val
        maxVal == Atoi(Text(lines, 3)).val
    IN  IF magicNumber # P2 /\ magicNumber # P5
        THEN Fail("Unsupported PGM format")
        ELSE IF Len(dimensions) < 2 THEN Panic            \* index out of range
        ELSE IF height < 0 THEN Panic                     \* make([][]uint8, height)
        ELSE IF height > 0 /\ width < 0 THEN Panic        \* make([]uint8, width)
        ELSE Ok([data |-> [i \in 1..height |-> [j \in 1..width |->
                             U8(Atoi(Text(lines, 3 + (i - 1) * width + j)).val)]],
                 width |-> width,
                 height |-> height,
                 magicNumber |-> magicNumber,
                 max |-> maxVal])

\* Save writing a P5 image's pixels as raw bytes, which ReadPGM does not read
PGMSaveRaw(g) ==
    g.magicNumber \o <<Chr.nl>> \o Itoa(g.width) \o <<Chr.sp>> \o Itoa(g.height)
        \o <<Chr.nl>> \o Itoa(g.max) \o <<Chr.nl>>
        \o Concat([i \in 1..g.height |->
             Concat([j \in 1..g.width |->
                IF g.magicNumber = P5 THEN <<g.data[i][j]>>
                ELSE Itoa(g.data[i][j]) \o <<Chr.nl>>])])

\* PGM.Save: the header, then every pixel in decimal on a line of its own,
\* whatever the magic number
PGMSave(g) ==
    g.magicNumber \o <<Chr.nl>> \o Itoa(g.width) \o <<Chr.sp>> \o Itoa(g.height)
        \o <<Chr.nl>> \o Itoa(g.max) \o <<Chr.nl>>
        \o Concat([i \in 1..g.height |->
             Concat([j \in 1..g.width |-> Itoa(g.data[i][j]) \o <<Chr.nl>>])])

PGMInvert(g) ==
    [g EXCEPT !.data = [i \in 1..g.height |-> [j \in 1..g.width |->
                          U8(U8(g.max) - g.data[i][j])]]]

PGMFlip(g) ==
    [g EXCEPT !.data = [i \in 1..g.height |-> FlipRow(g.data[i], g.width)]]

PGMFlop(g) == [g EXCEPT !.data = FlopRows(g.data, g.height)]

PGMSet(g, x, y, value) == [g EXCEPT !.data[y + 1][x + 1] = value]

PGMSetMagicNumber(g, magicNumber) == [g EXCEPT !.magicNumber = magicNumber]

PGMSetMaxValue(g, maxValue) == [g EXCEPT !.max = maxValue]

\* Rotate90CW with the row index not reversed: a transposition
Rotate90Transposed(g) ==
    [g EXCEPT !.data = [i \in 1..g.width |-> [j \in 1..g.height |-> g.data[j][i]]],
              !.width = g.height,
              !.height = g.width]

\* Rotate90CW: newData[i][j] = data[height-j-1][i], then width and height swap
Rotate90CW(g) ==
    [g EXCEPT !.data = [i \in 1..g.width |-> [j \in 1..g.height |->
                          g.data[g.height - j + 1][i]]],
              !.width = g.height,
              !.height = g.width]

\* ToPBM with the threshold not strict
ToPBMInclusive(g) ==
    [data |-> [i \in 1..g.height |-> [j \in 1..g.width |->
                 g.data[i][j] >= U8(g.max) \div 2]],
     width |-> g.width,
     height |-> g.height,
     magicNumber |-> P1]

\* ToPBM: a new bitmap, pixel > uint8(max)/2
ToPBM(g) ==
    [data |-> [i \in 1..g.height |-> [j \in 1..g.width |->
                 g.data[i][j] > U8(g.max) \div 2]],
     width |-> g.width,
     height |-> g.height,
     magicNumber |-> P1]

----------------------------------------------------------------------------
(* The files the program is given *)

\* width and height of the well-formed headers
Dims == {d \in (1..MaxPixels) \X (1..MaxPixels) : d[1] * d[2] <= MaxPixels}

\* gray levels of the well-formed inputs: pattern 1 spreads the levels and has
\* values of one, two and three digits, pattern 2 sits around max/2
GrayPattern(k, w, h, max) ==
    [y \in 1..h |-> [x \in 1..w |->
        LET i == (y - 1) * w + x
        IN  IF k = 1 THEN (97 * i) % (max + 1)
            ELSE CASE i % 4 = 1 -> max \div 2
                   [] i % 4 = 2 -> (max \div 2) + 1
                   [] i % 4 = 3 -> max
                   [] OTHER -> 0]]

BitPattern(k, w, h) ==
    [y \in 1..h |-> [x \in 1..w |->
        IF k = 1 THEN (x + y) % 2 = 0 ELSE x = 1 /\ y = 1]]

InputMax == {255, 2}

\* dimension lines that are not two positive integers
BadDimLines ==
    { <<>>,                       \* ""
      <<51>>,                     \* "3"
      <<50, 32, 49, 32, 55>>,     \* "2 1 7"
      <<97, 32, 49>>,             \* "a 1"
      <<49, 32, 98>>,             \* "1 b"
      <<48, 32, 49>>,             \* "0 1"
      <<49, 32, 48>>,             \* "1 0"
      <<45, 49, 32, 49>>,         \* "-1 1"
      <<49, 32, 45, 49>> }        \* "1 -1"

\* max-value lines that are not an integer
BadMaxLines == { <<>>, <<120>>, <<50, 53, 53, 32>> }    \* "", "x", "255 "

\* bytes of the binary bitmap rows: "\n", "\r", 0b10110000, 0b11111111
P4Bytes == {10, 13, 176, 255}
P4Widths == {1, 3, 8, 9}
\* bytes of pixel data in a binary bitmap input
MaxP4Bytes == 2

P4Dims == {d \in P4Widths \X (1..MaxP4Bytes) : ((d[1] + 7) \div 8) * d[2] <= MaxP4Bytes}

RECURSIVE SeqsOf(_, _)
SeqsOf(S, n) ==
    IF n = 0 THEN {<<>>}
    ELSE {Append(q, b) : q \in SeqsOf(S, n - 1), b \in S}

Line(s) == s \o <<Chr.nl>>

DimLine(w, h) == Itoa(w) \o <<Chr.sp>> \o Itoa(h)

\* the first n elements of the rows of a grid, in row-major order
Flat(grid) == Concat(grid)

Source(by, magic, hdr, w, h, max, data, missing, layout, img) ==
    [by |-> by, magic |-> magic, hdr |-> hdr, width |-> w, height |-> h,
     max |-> max, data |-> data, missing |-> missing, layout |-> layout,
     img |-> img]

\* a graymap with a well-formed header; the last `missing` pixels are absent.
\* layout "lines": one decimal token per line; "raw": one byte per pixel
GrayInput(magic, w, h, max, k, missing, layout) ==
    LET data == GrayPattern(k, w, h, max)
        px == SubSeq(Flat(data), 1, w * h - missing)
    IN  [file |-> Line(magic) \o Line(DimLine(w, h)) \o Line(Itoa(max))
                    \o (IF layout = "lines"
                        THEN Concat([i \in 1..Len(px) |-> Line(Itoa(px[i]))])
                        ELSE px),
         src |-> Source("input", magic, "ok", w, h, max, data, missing, layout, <<>>)]

\* a bitmap in ASCII; layout "spaced": "1 0 1", "packed": "101"
P1Input(w, h, k, missing, layout) ==
    LET data == BitPattern(k, w, h)
        tok(v) == IF v THEN Chr.one ELSE Chr.zero
        n(y) == IF y = h THEN w - missing ELSE w
        row(y) == IF layout = "packed" THEN [x \in 1..n(y) |-> tok(data[y][x])]
                  ELSE [x \in 1..(2 * n(y) - (IF n(y) > 0 THEN 1 ELSE 0)) |->
                          IF x % 2 = 1 THEN tok(data[y][(x + 1) \div 2]) ELSE Chr.sp]
    IN  [file |-> Line(P1) \o Line(DimLine(w, h))
                    \o Concat([y \in 1..h |-> Line(row(y))]),
         src |-> Source("input", P1, "ok", w, h, 0, data, missing, layout, <<>>)]

\* a binary bitmap: h rows of ceil(w/8) bytes; layout "raw": the rows one
\* after the other, "lines": a newline after each row
P4Input(w, h, bytes, missing, layout) ==
    LET n == (w + 7) \div 8
        data == [y \in 1..h |-> SubSeq(bytes, (y - 1) * n + 1, y * n)]
        have(y) == IF y = h THEN SubSeq(data[y], 1, n - missing) ELSE data[y]
    IN  [file |-> Line(P4) \o Line(DimLine(w, h))
                    \o Concat([y \in 1..h |->
                         IF layout = "lines" THEN Line(have(y)) ELSE have(y)]),
         src |-> Source("input", P4, "ok", w, h, 0, data, missing, layout, <<>>)]

\* a header whose dimension line or max-value line is malformed
BadHeaderInput(magic, dimLine, maxLine, hdr) ==
    [file |-> Line(magic) \o Line(dimLine)
                \o (IF magic \in {P2, P5} THEN Line(maxLine) \o Line(<<55>>)
                    ELSE Line(<<Chr.one>>)),
     src |-> Source("input", magic, hdr, 0, 0, 0, <<>>, 0, "lines", <<>>)]

GrayInputs ==
    {GrayInput(m, d[1], d[2], max, k, missing, "lines") :
        m \in {P2, P5}, d \in Dims, max \in InputMax, k \in {1, 2}, missing \in {0, 1}}
    \cup {GrayInput(P5, d[1], d[2], 255, 1, missing, "raw") :
        d \in Dims, missing \in {0, 1}}

P1Inputs ==
    {P1Input(d[1], d[2], k, missing, layout) :
        d \in Dims, k \in {1, 2}, missing \in {0, 1}, layout \in {"spaced", "packed"}}

P4Inputs ==
    UNION {{P4Input(d[1], d[2], b, missing, layout) :
              b \in SeqsOf(P4Bytes, ((d[1] + 7) \div 8) * d[2]),
              missing \in {0, 1}, layout \in {"raw", "lines"}} : d \in P4Dims}

BadHeaderInputs ==
    {BadHeaderInput(m, l, <<50, 53, 53>>, "dims") : m \in {P1, P2, P4, P5}, l \in BadDimLines}
    \cup {BadHeaderInput(m, DimLine(2, 1), l, "max") : m \in {P2, P5}, l \in BadMaxLines}

Inputs == GrayInputs \cup P1Inputs \cup P4Inputs \cup BadHeaderInputs

----------------------------------------------------------------------------
(* The program: one file, one *PGM, one *PBM, and the calls made on them *)

Init ==
    /\ \E i \in Inputs : file = i.file /\ src = i.src
    /\ pgm = <<>>
    /\ pbm = <<>>
    /\ err = "nil"
    /\ op = "start"
    /\ cnt = 0
    /\ orig = <<>>
    /\ steps = 0

\* a panic ends the program
Running == err # "panic" /\ steps < MaxSteps

\* bookkeeping of a call: name is applied to receiver recv
Called(name, recv) ==
    /\ op' = name
    /\ steps' = steps + 1
    /\ cnt' = 1
    /\ orig' = recv

\* bookkeeping of a transform: called again right after itself (up to four
\* calls) it continues the run, which counts as one step
Again(name) == err # "panic" /\ op = name /\ cnt < 4

Transformed(name, recv) ==
    /\ op' = name
    /\ IF Again(name)
       THEN cnt' = cnt + 1 /\ orig' = orig /\ steps' = steps
       ELSE cnt' = 1 /\ orig' = recv /\ steps' = steps + 1

SavedBy(name, img) ==
    Source(name, img[1].magicNumber, "ok", img[1].width, img[1].height, 0,
           <<>>, 0, "saved", img)

\* the arguments the calls are made with
PGMMagicNumbers == {P2, P5}
PBMMagicNumbers == {P1, P4}
SetValues == {255}
SetBits == {TRUE}
MaxValues == {127, 255}

DoReadPGM ==
    /\ Running
    /\ pgm' = ReadPGM(file).img
    /\ err' = ReadPGM(file).err
    /\ Called("ReadPGM", <<>>)
    /\ UNCHANGED <<file, src, pbm>>

DoReadPBM ==
    /\ Running
    /\ pbm' = ReadPBM(file).img
    /\ err' = ReadPBM(file).err
    /\ Called("ReadPBM", <<>>)
    /\ UNCHANGED <<file, src, pgm>>

DoPGMSave ==
    /\ Running /\ pgm # <<>>
    /\ file' = PGMSave(pgm[1])
    /\ src' = SavedBy("PGM.Save", pgm)
    /\ err' = "nil"
    /\ Called("PGM.Save", pgm)
    /\ UNCHANGED <<pgm, pbm>>

DoPBMSave ==
    /\ Running /\ pbm # <<>>
    /\ file' = PBMSave(pbm[1])
    /\ src' = SavedBy("PBM.Save", pbm)
    /\ err' = "nil"
    /\ Called("PBM.Save", pbm)
    /\ UNCHANGED <<pgm, pbm>>

\* a setter of *PGM
PGMCall(name, result) ==
    /\ Running /\ pgm # <<>>
    /\ pgm' = <<result>>
    /\ err' = "nil"
    /\ Called(name, pgm)
    /\ UNCHANGED <<file, src, pbm>>

\* a setter of *PBM; Set panics on a row it cannot index
PBMCall(name, result) ==
    /\ Running /\ pbm # <<>>
    /\ pbm' = <<result.img>>
    /\ err' = IF result.panic THEN "panic" ELSE "nil"
    /\ Called(name, pbm)
    /\ UNCHANGED <<file, src, pgm>>

\* a transform of *PGM
PGMTransform(name, result) ==
    /\ Running \/ Again(name)
    /\ pgm # <<>>
    /\ pgm' = <<result>>
    /\ err' = "nil"
    /\ Transformed(name, pgm)
    /\ UNCHANGED <<file, src, pbm>>

\* a transform of *PBM, which panics part of the way on a row it cannot index
PBMTransform(name, result) ==
    /\ Running \/ Again(name)
    /\ pbm # <<>>
    /\ pbm' = <<result.img>>
    /\ err' = IF result.panic THEN "panic" ELSE "nil"
    /\ Transformed(name, pbm)
    /\ UNCHANGED <<file, src, pgm>>

DoPGMInvert == pgm # <<>> /\ PGMTransform("PGM.Invert", PGMInvert(pgm[1]))
DoPGMFlip == pgm # <<>> /\ PGMTransform("PGM.Flip", PGMFlip(pgm[1]))
DoPGMFlop == pgm # <<>> /\ PGMTransform("PGM.Flop", PGMFlop(pgm[1]))
DoRotate90CW == pgm # <<>> /\ PGMTransform("PGM.Rotate90CW", Rotate90CW(pgm[1]))

DoPGMSet ==
    /\ pgm # <<>>
    /\ \E x \in 0..(pgm[1].width - 1), y \in 0..(pgm[1].height - 1), v \in SetValues :
          PGMCall("PGM.Set", PGMSet(pgm[1], x, y, v))

DoPGMSetMagicNumber ==
    /\ pgm # <<>>
    /\ \E m \in PGMMagicNumbers :
          PGMCall("PGM.SetMagicNumber", PGMSetMagicNumber(pgm[1], m))

DoPGMSetMaxValue ==
    /\ pgm # <<>>
    /\ \E m \in MaxValues : PGMCall("PGM.SetMaxValue", PGMSetMaxValue(pgm[1], m))

DoToPBM ==
    /\ Running /\ pgm # <<>>
    /\ pbm' = <<ToPBM(pgm[1])>>
    /\ err' = "nil"
    /\ Called("PGM.ToPBM", pgm)
    /\ UNCHANGED <<file, src, pgm>>

DoPBMInvert == pbm # <<>> /\ PBMTransform("PBM.Invert", PBMInvert(pbm[1]))
DoPBMFlip == pbm # <<>> /\ PBMTransform("PBM.Flip", PBMFlip(pbm[1]))
DoPBMFlop == pbm # <<>> /\ PBMTransform("PBM.Flop", PBMFlop(pbm[1]))

DoPBMSet ==
    /\ pbm # <<>>
    /\ \E x \in 0..(pbm[1].width - 1), y \in 0..(pbm[1].height - 1), v \in SetBits :
          PBMCall("PBM.Set", PBMSet(pbm[1], x, y, v))

DoPBMSetMagicNumber ==
    /\ pbm # <<>>
    /\ \E m \in PBMMagicNumbers :
          PBMCall("PBM.SetMagicNumber",
                  [panic |-> FALSE, img |-> PBMSetMagicNumber(pbm[1], m)])

\* The file, the *PGM and the *PBM change independently of each other, so the
\* calls are explored in two groups over the same state.
\* Reading, writing, converting and the setters:
Next ==
    \/ DoReadPGM \/ DoReadPBM \/ DoPGMSave \/ DoPBMSave \/ DoToPBM
    \/ DoPGMSet \/ DoPGMSetMagicNumber \/ DoPGMSetMaxValue
    \/ DoPBMSet \/ DoPBMSetMagicNumber

Spec == Init /\ [][Next]_vars

\* Reading and the transforms:
NextTransform ==
    \/ DoReadPGM \/ DoReadPBM \/ DoPGMSetMaxValue
    \/ DoPGMInvert \/ DoPGMFlip \/ DoPGMFlop \/ DoRotate90CW
    \/ DoPBMInvert \/ DoPBMFlip \/ DoPBMFlop

SpecTransform == Init /\ [][NextTransform]_vars

----------------------------------------------------------------------------
(* What the claims speak of *)

\* the dimensional invariant: height rows of width elements
DimOK(i) ==
    /\ Len(i.data) = i.height
    /\ \A y \in 1..Len(i.data) : Len(i.data[y]) = i.width

\* a valid grayscale image of the data model
ValidPGM(g) ==
    /\ g.magicNumber \in {P2, P5}
    /\ g.max \in 1..255
    /\ g.width >= 1 /\ g.height >= 1
    /\ DimOK(g)
    /\ \A y \in 1..g.height : \A x \in 1..g.width : g.data[y][x] \in 0..g.max

\* a valid ASCII bitmap of the data model
ValidP1(b) ==
    /\ b.magicNumber = P1
    /\ b.width >= 1 /\ b.height >= 1
    /\ DimOK(b)

\* the last operation read an input file of the reader's own kind
ReadInput ==
    /\ src.by = "input"
    /\ \/ op = "ReadPGM" /\ src.magic \in {P2, P5}
       \/ op = "ReadPBM" /\ src.magic \in {P1, P4}

\* what the last read returned
Returned == IF op = "ReadPGM" THEN pgm ELSE pbm

\* an error value was returned, and no image
Refused == err \notin {"nil", "panic"} /\ Returned = <<>>

----------------------------------------------------------------------------
(* The claims *)

\* C1: a valid P1 bitmap written by PBM.Save and read back by ReadPBM comes
\* back without error and equal in magic number, width, height and pixels.
C1_BitmapRoundTrip ==
    (op = "ReadPBM" /\ src.by = "PBM.Save" /\ ValidP1(src.img[1]))
        => (err = "nil" /\ pbm = src.img)

\* C2: a valid grayscale image (P2 or P5, max in 1..255, pixels in 0..max)
\* written by PGM.Save and read back by ReadPGM comes back equal in magic
\* number, width, height, max value and every pixel.
C2_GrayRoundTrip ==
    (op = "ReadPGM" /\ src.by = "PGM.Save" /\ ValidPGM(src.img[1]))
        => (err = "nil" /\ pgm = src.img)

C2_Witness ==
    /\ op = "ReadPGM" /\ src.by = "PGM.Save" /\ ValidPGM(src.img[1])
    /\ src.img[1].magicNumber = P5
    /\ src.img[1].width >= 2 /\ src.img[1].height >= 2
    /\ \E y \in 1..2 : \E x \in 1..2 : src.img[1].data[y][x] >= 100
    /\ \E y \in 1..2 : \E x \in 1..2 : src.img[1].data[y][x] < 100
    /\ pgm = src.img

\* C3: ReadPBM of a P4 stream of h rows of ceil(w/8) bytes, whatever the
\* bytes, returns the image whose pixel (x, y) is bit 7 - x mod 8 of byte
\* floor(x/8) of row y.  (Stated for the streams with one row per line.)
C3_BinaryBitmapDecode ==
    (op = "ReadPBM" /\ src.by = "input" /\ src.magic = P4 /\ src.hdr = "ok"
        /\ src.missing = 0 /\ src.layout = "lines")
        => /\ err = "nil"
           /\ pbm # <<>>
           /\ pbm[1].width = src.width /\ pbm[1].height = src.height
           /\ pbm[1].data =
                [y \in 1..src.height |-> [x \in 1..src.width |->
                    Bit(src.data[y][((x - 1) \div 8) + 1], 7 - ((x - 1) % 8)) = 1]]

\* C4: PGM.Save of a P5 image writes the three header lines and then exactly
\* height*width bytes, the byte at y*width + x being pixel (x, y).
C4_BinaryGrayEncode ==
    (op = "PGM.Save" /\ src.img[1].magicNumber = P5)
        => file = Line(P5) \o Line(DimLine(src.img[1].width, src.img[1].height))
                    \o Line(Itoa(src.img[1].max)) \o Flat(src.img[1].data)

\* C5: after a well-formed header, a stream with all height*width pixels is
\* read without error, and a stream that ends short of them is refused with
\* an error and no image.
C5_TruncatedData ==
    (ReadInput /\ src.hdr = "ok")
        => /\ src.missing = 0 => err = "nil"
           /\ src.missing > 0 => Refused

\* C6: a dimension line that is not two positive integers, or for ReadPGM a
\* max-value line that is not an integer, is refused with an error and no
\* image; the read never faults.
C6_MalformedHeader ==
    (ReadInput /\ (src.hdr = "dims" \/ (src.hdr = "max" /\ op = "ReadPGM")))
        => Refused

\* C7: every image the program holds has height rows of width elements.
C7_DimensionalInvariant ==
    /\ pgm # <<>> => DimOK(pgm[1])
    /\ pbm # <<>> => DimOK(pbm[1])

\* C8: on an image of at least one row and one column, Flip, Flop and Invert
\* do not fault, and two (or four) calls in a row of any one of them leave the
\* image as it was.
C8_Involutions ==
    /\ (op \in {"PGM.Flip", "PGM.Flop", "PGM.Invert"}
          /\ orig[1].width >= 1 /\ orig[1].height >= 1 /\ DimOK(orig[1]))
        => (err = "nil" /\ (cnt \in {2, 4} => pgm = orig))
    /\ (op \in {"PBM.Flip", "PBM.Flop", "PBM.Invert"}
          /\ orig[1].width >= 1 /\ orig[1].height >= 1 /\ DimOK(orig[1]))
        => (err = "nil" /\ (cnt \in {2, 4} => pbm = orig))

C8_Witness ==
    /\ op = "PGM.Flip" /\ cnt = 2
    /\ orig[1].width = 3
    /\ PGMFlip(orig[1]) # orig[1]
    /\ pgm = orig

\* C9: one Rotate90CW swaps width and height and puts the old pixel of row
\* h-j-1, column i at row i, column j, magic number and max value unchanged;
\* four calls in a row give back the original image.
C9_Rotation ==
    (op = "PGM.Rotate90CW" /\ orig[1].width >= 1 /\ orig[1].height >= 1)
        => /\ cnt = 1 =>
                /\ pgm[1].width = orig[1].height
                /\ pgm[1].height = orig[1].width
                /\ pgm[1].magicNumber = orig[1].magicNumber
                /\ pgm[1].max = orig[1].max
                /\ Len(pgm[1].data) = orig[1].width
                /\ \A i \in 0..(orig[1].width - 1) :
                      /\ Len(pgm[1].data[i + 1]) = orig[1].height
                      /\ \A j \in 0..(orig[1].height - 1) :
                            pgm[1].data[i + 1][j + 1]
                                = orig[1].data[(orig[1].height - j - 1) + 1][i + 1]
           /\ cnt = 4 => pgm = orig

C9_Witness ==
    /\ op = "PGM.Rotate90CW" /\ cnt = 4
    /\ orig[1].width = 3 /\ orig[1].height = 2
    /\ Rotate90CW(orig[1]) # orig[1]
    /\ pgm = orig

\* the state after ToPBM: the bitmap is the thresholded image, the grayscale
\* image is as it was
ThresholdResult ==
    (op = "PGM.ToPBM" /\ orig[1].max \in 1..255)
        => /\ pgm = orig
           /\ pbm # <<>>
           /\ pbm[1].magicNumber = P1
           /\ pbm[1].width = orig[1].width
           /\ pbm[1].height = orig[1].height
           /\ DimOK(pbm[1])
           /\ \A y \in 1..orig[1].height : \A x \in 1..orig[1].width :
                 pbm[1].data[y][x] <=> (orig[1].data[y][x] > orig[1].max \div 2)

\* C10: ToPBM of a grayscale image of max value 1..255 returns a P1 bitmap of
\* the same width and height whose pixel is true exactly when the gray level
\* exceeds max/2 (integer division) and leaves the grayscale image as it was;
\* a later Set or SetMagicNumber on the bitmap does not change the grayscale
\* image.
C10_Threshold ==
    /\ []ThresholdResult
    /\ [][op' \in {"PBM.Set", "PBM.SetMagicNumber"} => pgm' = pgm]_vars

C10_Witness ==
    /\ op = "PGM.ToPBM" /\ orig[1].max \in 1..255
    /\ \E y \in 1..orig[1].height : \E x \in 1..orig[1].width :
          orig[1].data[y][x] = orig[1].max \div 2 /\ ~pbm[1].data[y][x]
    /\ \E y \in 1..orig[1].height : \E x \in 1..orig[1].width :
          orig[1].data[y][x] = (orig[1].max \div 2) + 1 /\ pbm[1].data[y][x]

====
